---- MODULE Spec2Model ----
(***************************************************************************)
(* Student result management: the persistent result store (main.mo), the   *)
(* grading computation and the form handlers of the frontend (App.tsx),    *)
(* and the query/mutation hooks that connect them (hooks/useQueries).      *)
(***************************************************************************)
EXTENDS Integers, Sequences, FiniteSets, TLC

\* ------------------------------------------------------------------ bounds

\* addResult calls accepted over one lifetime of the store (caps nextId and
\* the history of returned ids).
MaxAdds == 3

\* addResult requests the frontend sends.
MaxUiAdds == 1

\* ------------------------------------------------------------------ state

VARIABLES
    results,            \* main.mo:29   Map<Nat, StudentResult>, as a function on the keys present
    nextId,             \* main.mo:30   var nextId : Nat
    reply,              \* the outcome of the last store call, as its caller sees it
    issued,             \* history: the ids returned by addResult, in call order
    clearedAt,          \* history: Len(issued) when clearAll last ran (0 if never)
    cleared,            \* history: TRUE from a clearAll until the next addResult
    deleted,            \* history: ids removed by a successful deleteResult, ever
    deletedSinceClear,  \* history: the same, since the last clearAll
    live,               \* history: ids returned by addResult and not removed since
    birth,              \* history: creation ordinal of each record now in the store
    formValues,         \* App.tsx:130  the seven form fields, as typed
    errors,             \* App.tsx:139  the fields with a validation message
    calculated,         \* App.tsx:140  CalculatedResult | null
    isAdding,           \* App.tsx:141
    actor,              \* useActor(): the backend actor, "null" until created
    addMutation,        \* useAddResult(): the mutation's isPending and its request in flight
    gradeMarks,         \* the five marks given to the grade calculation
    gradeOut,           \* the total, average and grade computed from them
    who,                \* history: the caller of the last store call, and of the
                        \* addResult that last created each id
    resultsQuery,       \* useGetResults(): the query's data and its fetch in flight
    deleteResultMutation, \* useDeleteResult(): isPending, status and request in flight
    quiet               \* history: TRUE from a mutation's success in the frontend
                        \* until the store next changes

storeVars == <<results, nextId, reply, issued, clearedAt, cleared, deleted,
               deletedSinceClear, live, birth>>

uiVars == <<formValues, errors, calculated, isAdding, actor, addMutation>>

gradeVars == <<gradeMarks, gradeOut>>

listVars == <<resultsQuery, deleteResultMutation>>

vars == <<storeVars, uiVars, listVars, gradeVars, who, quiet>>

\* ------------------------------------------------------------ JS numbers

\* A JavaScript number / Motoko Float that arises here is a quotient of two
\* integers; it is kept exactly as numerator and denominator (den > 0).
Rat(n, d) == [num |-> n, den |-> d]

RatLess(a, b) == a.num * b.den < b.num * a.den

RatGeq(a, b) == ~RatLess(a, b)

RatEq(a, b) == a.num * b.den = b.num * a.den

\* ------------------------------------------------------------ the store

Subjects == <<"maths", "science", "english", "tamil", "computerScience">>

Callers == {"alice", "bob"}

\* Arguments of addResult used by the store-level specification (a Text is a
\* sequence of characters). The store validates nothing, so the third one is
\* a caller's inconsistent record.
ArgsA == [rollNumber |-> <<"R", "1">>, studentName |-> <<"A", "s", "h", "a">>,
          maths |-> 90, science |-> 90, english |-> 90, tamil |-> 90,
          computerScience |-> 90, total |-> 450, average |-> Rat(450, 5),
          grade |-> "A", timestamp |-> 1000]

ArgsB == [rollNumber |-> <<"R", "2">>, studentName |-> <<"B", "a", "l", "a">>,
          maths |-> 34, science |-> 90, english |-> 90, tamil |-> 90,
          computerScience |-> 90, total |-> 394, average |-> Rat(394, 5),
          grade |-> "Fail", timestamp |-> 2000]

ArgsC == [rollNumber |-> <<"R", "1">>, studentName |-> <<>>,
          maths |-> 0, science |-> 1, english |-> 2, tamil |-> 3,
          computerScience |-> 4, total |-> 7, average |-> Rat(1, 1),
          grade |-> "Z", timestamp |-> -5]

StoreArgs == {ArgsA, ArgsB, ArgsC}

\* The record addResult builds from its arguments (main.mo:45-58).
NewResultSkewed(id, a) ==
    [id |-> id, rollNumber |-> a.studentName, studentName |-> a.rollNumber,
     maths |-> a.maths, science |-> a.science, english |-> a.english,
     tamil |-> a.tamil, computerScience |-> a.computerScience,
     total |-> a.total, average |-> a.average, grade |-> a.grade,
     timestamp |-> a.timestamp]

NewResult(id, a) ==
    [id |-> id, rollNumber |-> a.rollNumber, studentName |-> a.studentName,
     maths |-> a.maths, science |-> a.science, english |-> a.english,
     tamil |-> a.tamil, computerScience |-> a.computerScience,
     total |-> a.total, average |-> a.average, grade |-> a.grade,
     timestamp |-> a.timestamp]

\* Map.add(k, v): insert or replace.
MapAdd(m, k, v) == [x \in (DOMAIN m) \cup {k} |-> IF x = k THEN v ELSE m[x]]

\* Map.remove(k).
MapRemove(m, k) == [x \in (DOMAIN m) \ {k} |-> m[x]]

\* Nat.compare on the ids (main.mo:24-26).
compareReversed(result1, result2) ==
    IF result2.id < result1.id THEN "less"
    ELSE IF result2.id = result1.id THEN "equal" ELSE "greater"

compare(result1, result2) ==
    IF result1.id < result2.id THEN "less"
    ELSE IF result1.id = result2.id THEN "equal" ELSE "greater"

\* Map.values().toArray(): the values in the map's iteration order, which for
\* mo:core/Map is ascending key order.
RECURSIVE ValuesOf(_, _)
ValuesOf(m, keys) ==
    IF keys = {} THEN <<>>
    ELSE LET k == CHOOSE x \in keys : \A y \in keys : x <= y
         IN  <<m[k]>> \o ValuesOf(m, keys \ {k})

valuesToArray(m) == ValuesOf(m, DOMAIN m)

\* Array.sort() with the type's compare: a stable insertion sort.
RECURSIVE InsertSorted(_, _)
InsertSorted(sorted, r) ==
    IF sorted = <<>> THEN <<r>>
    ELSE IF compare(r, Head(sorted)) = "less" THEN <<r>> \o sorted
    ELSE <<Head(sorted)>> \o InsertSorted(Tail(sorted), r)

RECURSIVE sort(_)
sort(arr) ==
    IF arr = <<>> THEN <<>>
    ELSE InsertSorted(sort(SubSeq(arr, 1, Len(arr) - 1)), arr[Len(arr)])

\* What the caller of a store method gets back, with the request it answers.
Ok(op, arg, value) == [op |-> op, arg |-> arg, ok |-> TRUE, value |-> value]

\* Runtime.trap(message): the call is rejected with the message.
Trap(op, arg, message) == [op |-> op, arg |-> arg, ok |-> FALSE, value |-> message]

NoReply == [op |-> "none", arg |-> "none", ok |-> TRUE, value |-> "none"]

StoreInit ==
    /\ results = <<>>
    /\ nextId = 0
    /\ reply = NoReply
    /\ issued = <<>>
    /\ clearedAt = 0
    /\ cleared = FALSE
    /\ deleted = {}
    /\ deletedSinceClear = {}
    /\ live = {}
    /\ birth = <<>>

\* addResult with the increment of nextId left out.
addResultNoIncrement(caller, a) ==
    /\ Len(issued) < MaxAdds
    /\ LET newResult == NewResult(nextId, a)
       IN  /\ results' = MapAdd(results, nextId, newResult)
           /\ nextId' = nextId
           /\ reply' = Ok("addResult", a, newResult.id)
           /\ issued' = Append(issued, newResult.id)
           /\ live' = live \cup {newResult.id}
           /\ birth' = MapAdd(birth, newResult.id, Len(issued) + 1)
    /\ cleared' = FALSE
    /\ UNCHANGED <<clearedAt, deleted, deletedSinceClear>>

\* main.mo:32-63. The caller is accepted and not used.
addResult(caller, a) ==
    /\ Len(issued) < MaxAdds
    /\ LET newResult == NewResult(nextId, a)
       IN  /\ results' = MapAdd(results, nextId, newResult)
           /\ nextId' = nextId + 1
           /\ reply' = Ok("addResult", a, newResult.id)
           /\ issued' = Append(issued, newResult.id)
           /\ live' = live \cup {newResult.id}
           /\ birth' = MapAdd(birth, newResult.id, Len(issued) + 1)
    /\ cleared' = FALSE
    /\ UNCHANGED <<clearedAt, deleted, deletedSinceClear>>

\* main.mo:65-67.
getResults(caller) ==
    /\ reply' = Ok("getResults", "none", sort(valuesToArray(results)))
    /\ UNCHANGED <<results, nextId, issued, clearedAt, cleared, deleted,
                   deletedSinceClear, live, birth>>

\* deleteResult with the containsKey test left out: Map.remove of an absent
\* key changes nothing and the call returns normally.
deleteResultUnchecked(caller, id) ==
    /\ results' = MapRemove(results, id)
    /\ reply' = Ok("deleteResult", id, "none")
    /\ deleted' = IF id \in DOMAIN results THEN deleted \cup {id} ELSE deleted
    /\ deletedSinceClear' = IF id \in DOMAIN results
                            THEN deletedSinceClear \cup {id}
                            ELSE deletedSinceClear
    /\ live' = live \ {id}
    /\ birth' = MapRemove(birth, id)
    /\ UNCHANGED <<nextId, issued, clearedAt, cleared>>

\* deleteResult that acknowledges without removing the record.
deleteResultKeeps(caller, id) ==
    IF id \notin DOMAIN results
    THEN /\ reply' = Trap("deleteResult", id, "Result with id does not exist")
         /\ UNCHANGED <<results, nextId, issued, clearedAt, cleared, deleted,
                        deletedSinceClear, live, birth>>
    ELSE /\ results' = results
         /\ reply' = Ok("deleteResult", id, "none")
         /\ deleted' = deleted \cup {id}
         /\ deletedSinceClear' = deletedSinceClear \cup {id}
         /\ live' = live \ {id}
         /\ birth' = birth
         /\ UNCHANGED <<nextId, issued, clearedAt, cleared>>

\* deleteResult that also rewinds the counter to the removed id.
deleteResultRewinds(caller, id) ==
    IF id \notin DOMAIN results
    THEN /\ reply' = Trap("deleteResult", id, "Result with id does not exist")
         /\ UNCHANGED <<results, nextId, issued, clearedAt, cleared, deleted,
                        deletedSinceClear, live, birth>>
    ELSE /\ results' = MapRemove(results, id)
         /\ nextId' = id
         /\ reply' = Ok("deleteResult", id, "none")
         /\ deleted' = deleted \cup {id}
         /\ deletedSinceClear' = deletedSinceClear \cup {id}
         /\ live' = live \ {id}
         /\ birth' = MapRemove(birth, id)
         /\ UNCHANGED <<issued, clearedAt, cleared>>

\* deleteResult that refuses a caller who did not create the record.
deleteResultCreatorOnly(caller, id) ==
    IF id \notin DOMAIN results
    THEN /\ reply' = Trap("deleteResult", id, "Result with id does not exist")
         /\ UNCHANGED <<results, nextId, issued, clearedAt, cleared, deleted,
                        deletedSinceClear, live, birth>>
    ELSE IF who.made[id] # caller
    THEN /\ reply' = Trap("deleteResult", id, "Not authorized")
         /\ UNCHANGED <<results, nextId, issued, clearedAt, cleared, deleted,
                        deletedSinceClear, live, birth>>
    ELSE /\ results' = MapRemove(results, id)
         /\ reply' = Ok("deleteResult", id, "none")
         /\ deleted' = deleted \cup {id}
         /\ deletedSinceClear' = deletedSinceClear \cup {id}
         /\ live' = live \ {id}
         /\ birth' = MapRemove(birth, id)
         /\ UNCHANGED <<nextId, issued, clearedAt, cleared>>

\* main.mo:69-74. A trap rolls the call's state changes back.
deleteResult(caller, id) ==
    IF id \notin DOMAIN results
    THEN /\ reply' = Trap("deleteResult", id, "Result with id does not exist")
         /\ UNCHANGED <<results, nextId, issued, clearedAt, cleared, deleted,
                        deletedSinceClear, live, birth>>
    ELSE /\ results' = MapRemove(results, id)
         /\ reply' = Ok("deleteResult", id, "none")
         /\ deleted' = deleted \cup {id}
         /\ deletedSinceClear' = deletedSinceClear \cup {id}
         /\ live' = live \ {id}
         /\ birth' = MapRemove(birth, id)
         /\ UNCHANGED <<nextId, issued, clearedAt, cleared>>

\* clearAll with the reset of nextId left out.
clearAllKeepsCounter(caller) ==
    /\ results' = <<>>
    /\ nextId' = nextId
    /\ reply' = Ok("clearAll", "none", "none")
    /\ clearedAt' = Len(issued)
    /\ cleared' = TRUE
    /\ deletedSinceClear' = {}
    /\ live' = {}
    /\ birth' = <<>>
    /\ UNCHANGED <<issued, deleted>>

\* clearAll with results.clear() left out.
clearAllKeepsRecords(caller) ==
    /\ results' = results
    /\ nextId' = 0
    /\ reply' = Ok("clearAll", "none", "none")
    /\ clearedAt' = Len(issued)
    /\ cleared' = TRUE
    /\ deletedSinceClear' = {}
    /\ live' = {}
    /\ birth' = <<>>
    /\ UNCHANGED <<issued, deleted>>

\* main.mo:76-79.
clearAll(caller) ==
    /\ results' = <<>>
    /\ nextId' = 0
    /\ reply' = Ok("clearAll", "none", "none")
    /\ clearedAt' = Len(issued)
    /\ cleared' = TRUE
    /\ deletedSinceClear' = {}
    /\ live' = {}
    /\ birth' = <<>>
    /\ UNCHANGED <<issued, deleted>>

\* Ids a caller may ask to delete: every id the store can have issued, and one
\* it cannot.
DeleteIds == 0..MaxAdds

\* ----------------------------------------------------- the grade calculator

SubjectKeys == {Subjects[i] : i \in 1..Len(Subjects)}

RatAdd(a, b) == Rat(a.num * b.den + b.num * a.den, a.den * b.den)

\* a / n for a number a and a positive integer literal n.
RatDiv(a, n) == Rat(a.num, a.den * n)

FromInt(n) == Rat(n, 1)

\* Object.values(marks): the marks in the object's key order.
ObjectValues(marks) == [i \in 1..Len(Subjects) |-> marks[Subjects[i]]]

\* Array.reduce((a, b) => a + b, 0) (App.tsx:179).
RECURSIVE ReduceSum(_)
ReduceSum(values) ==
    IF values = <<>> THEN FromInt(0)
    ELSE RatAdd(ReduceSum(SubSeq(values, 1, Len(values) - 1)), values[Len(values)])

\* computeGrade without the failing-subject test.
computeGradeAverageOnly(average, marks) ==
    IF RatLess(average, FromInt(40)) THEN "Fail"
    ELSE IF RatGeq(average, FromInt(80)) THEN "A"
    ELSE IF RatGeq(average, FromInt(60)) THEN "B"
    ELSE "C"

\* computeGrade with the band boundaries given to the lower band.
computeGradeStrictBands(average, marks) ==
    LET hasFailingSubject == \E k \in DOMAIN marks : RatLess(marks[k], FromInt(35))
    IN  IF hasFailingSubject \/ ~RatLess(FromInt(40), average) THEN "Fail"
        ELSE IF RatLess(FromInt(80), average) THEN "A"
        ELSE IF RatLess(FromInt(60), average) THEN "B"
        ELSE "C"

\* App.tsx:75-84.
computeGrade(average, marks) ==
    LET hasFailingSubject == \E k \in DOMAIN marks : RatLess(marks[k], FromInt(35))
    IN  IF hasFailingSubject \/ RatLess(average, FromInt(40)) THEN "Fail"
        ELSE IF RatGeq(average, FromInt(80)) THEN "A"
        ELSE IF RatGeq(average, FromInt(60)) THEN "B"
        ELSE "C"

\* Math.round(x) for x >= 0.
RoundHalfUp(a) == FromInt((2 * a.num + a.den) \div (2 * a.den))

\* The calculation with the average rounded to a whole number.
CalculationRounded(marks) ==
    LET total == ReduceSum(ObjectValues(marks))
        average == RoundHalfUp(RatDiv(total, 5))
    IN  [total |-> total, average |-> average,
         grade |-> computeGrade(average, marks), marks |-> marks]

\* The CalculatedResult handleCalculate derives from the marks (App.tsx:179-183).
Calculation(marks) ==
    LET total == ReduceSum(ObjectValues(marks))
        average == RatDiv(total, 5)
    IN  [total |-> total, average |-> average,
         grade |-> computeGrade(average, marks), marks |-> marks]

\* null, where a record may stand.
Null == [null |-> TRUE]

\* Marks the calculator is run on: the ends of the range and the values on
\* both sides of the failing mark and of the band boundaries.
MarkValues == {0, 34, 35, 39, 40, 60, 80, 100}

GradeIdle ==
    /\ gradeMarks = [k \in SubjectKeys |-> FromInt(0)]
    /\ gradeOut = Null

GradeInit ==
    /\ gradeMarks \in [SubjectKeys -> {FromInt(m) : m \in MarkValues}]
    /\ gradeOut = Null

\* One run of the calculation on the given marks.
Grade ==
    /\ gradeOut = Null
    /\ gradeOut' = Calculation(gradeMarks)
    /\ UNCHANGED gradeMarks

\* ------------------------------------------------------------- the form

\* A JavaScript string is a sequence of characters.
IsSpace(c) == c = " "

RECURSIVE trimStart(_)
trimStart(str) ==
    IF str # <<>> /\ IsSpace(Head(str)) THEN trimStart(Tail(str)) ELSE str

RECURSIVE trimEnd(_)
trimEnd(str) ==
    IF str # <<>> /\ IsSpace(str[Len(str)])
    THEN trimEnd(SubSeq(str, 1, Len(str) - 1))
    ELSE str

\* String.prototype.trim().
trim(str) == trimEnd(trimStart(str))

DigitChars == {"0", "1", "2", "3", "4", "5", "6", "7", "8", "9"}

DigitValue(c) ==
    CASE c = "0" -> 0 [] c = "1" -> 1 [] c = "2" -> 2 [] c = "3" -> 3
      [] c = "4" -> 4 [] c = "5" -> 5 [] c = "6" -> 6 [] c = "7" -> 7
      [] c = "8" -> 8 [] c = "9" -> 9

RECURSIVE DigitsValue(_)
DigitsValue(digits) ==
    IF digits = <<>> THEN 0
    ELSE DigitsValue(SubSeq(digits, 1, Len(digits) - 1)) * 10
         + DigitValue(digits[Len(digits)])

RECURSIVE Pow10(_)
Pow10(n) == IF n = 0 THEN 1 ELSE 10 * Pow10(n - 1)

\* NaN compares false with every number, as a zero denominator does here.
NaN == Rat(0, 0)

\* Number.isNaN.
IsNaN(a) == a.den = 0

\* Number.isInteger.
IsInteger(a) == a.den # 0 /\ a.num % a.den = 0

\* Number(str) for decimal literals: optional sign, digits, optional fraction,
\* with surrounding white space ignored and the empty string giving 0; any
\* other text gives NaN. Whole numbers are kept with denominator 1.
ToNumber(str) ==
    LET t == trim(str)
        signed == t # <<>> /\ Head(t) \in {"-", "+"}
        sign == IF t # <<>> /\ Head(t) = "-" THEN -1 ELSE 1
        body == IF signed THEN Tail(t) ELSE t
        dots == {i \in 1..Len(body) : body[i] = "."}
        dot == IF dots = {} THEN Len(body) + 1 ELSE CHOOSE i \in dots : TRUE
        intPart == SubSeq(body, 1, dot - 1)
        fracPart == SubSeq(body, dot + 1, Len(body))
        wellFormed ==
            /\ Cardinality(dots) <= 1
            /\ Len(intPart) + Len(fracPart) >= 1
            /\ \A i \in 1..Len(intPart) : intPart[i] \in DigitChars
            /\ \A i \in 1..Len(fracPart) : fracPart[i] \in DigitChars
        den == Pow10(Len(fracPart))
        num == sign * (DigitsValue(intPart) * den + DigitsValue(fracPart))
    IN  IF t = <<>> THEN FromInt(0)
        ELSE IF ~wellFormed THEN NaN
        ELSE IF num % den = 0 THEN FromInt(num \div den)
        ELSE Rat(num, den)

FormFields == {"studentName", "rollNumber"} \cup SubjectKeys

EmptyForm == [f \in FormFields |-> <<>>]

\* validateForm's test of one field with the range test left out.
FieldErrorNoRange(values, key) ==
    IF key = "studentName"
    THEN IF trim(values.studentName) = <<>> THEN "Student name is required" ELSE "none"
    ELSE IF key = "rollNumber"
    THEN IF trim(values.rollNumber) = <<>> THEN "Roll number is required" ELSE "none"
    ELSE LET raw == values[key]
         IN  IF raw = <<>> THEN "marks required"
             ELSE LET num == ToNumber(raw)
                  IN  IF ~IsInteger(num) \/ IsNaN(num) THEN "Enter a whole number"
                      ELSE "none"

\* The message validateForm gives for one field, "none" when it passes
\* (App.tsx:105-123).
FieldError(values, key) ==
    IF key = "studentName"
    THEN IF trim(values.studentName) = <<>> THEN "Student name is required" ELSE "none"
    ELSE IF key = "rollNumber"
    THEN IF trim(values.rollNumber) = <<>> THEN "Roll number is required" ELSE "none"
    ELSE LET raw == values[key]
         IN  IF raw = <<>> THEN "marks required"
             ELSE LET num == ToNumber(raw)
                  IN  IF ~IsInteger(num) \/ IsNaN(num) THEN "Enter a whole number"
                      ELSE IF RatLess(num, FromInt(0)) \/ RatLess(FromInt(100), num)
                      THEN "Marks must be 0-100"
                      ELSE "none"

\* App.tsx:102-127: the fields in error, each with its message.
validateForm(values) ==
    [key \in {f \in FormFields : FieldError(values, f) # "none"}
        |-> FieldError(values, key)]

\* What the user can type into each field. The mark fields are number inputs
\* (App.tsx:357), which hand over "" or a decimal literal; every mark field is
\* validated by the same loop, and the malformed marks are typed into the
\* first one.
NameInputs == {<<>>, <<" ">>, <<"A", "n", " ">>}

RollInputs == {<<>>, <<" ", "7">>}

MathsInputs == {<<>>, <<"3", "4">>, <<"1", "0", "0">>, <<"1", "0", "1">>,
                <<"-", "1">>, <<"1", ".", "5">>}

FieldInputs(field) ==
    CASE field = "studentName" -> NameInputs
      [] field = "rollNumber" -> RollInputs
      [] field = "maths" -> MathsInputs
      [] field = "science" -> {<<>>, <<"3", "5">>}
      [] field = "english" -> {<<>>, <<"6", "0">>}
      [] field = "tamil" -> {<<>>, <<"8", "0">>}
      [] field = "computerScience" -> {<<>>, <<"1", "0", "0">>}

\* Date.now() readings.
Timestamps == {1000}

\* The principal the frontend's actor calls the store as.
UiCaller == "anonymous"

\* useMutation's state: idle, then pending, success or error by turns.
Settled == [isPending |-> FALSE, request |-> "none", status |-> "idle"]

Succeeded == [Settled EXCEPT !.status = "success"]

Failed == [Settled EXCEPT !.status = "error"]

UiInit ==
    /\ formValues = EmptyForm
    /\ errors = <<>>
    /\ calculated = Null
    /\ isAdding = FALSE
    /\ actor = "null"
    /\ addMutation = Settled

\* useAddResult (hooks/useQueries:55) and useMutation's isPending.
isActorReady == actor # "null"

isAddPending == addMutation.isPending

\* useGetResults (hooks/useQueries:5-15): data is what App.tsx:143 reads, []
\* while nothing was fetched; fetch is "idle", "sent" (the getResults call is
\* on its way) or "served" (response holds the store's answer).
NoData == [data |-> <<>>, fetch |-> "idle", response |-> <<>>]

ListInit ==
    /\ resultsQuery = NoData
    /\ deleteResultMutation = Settled

\* The query's enabled option (hooks/useQueries:13).
enabled == actor # "null"

\* onSuccess without the invalidation and the refetch.
RefetchSkipped(q) == q

\* queryClient.invalidateQueries + refetchQueries on ["results"]
\* (hooks/useQueries:51-52, 67-68): a fetch in flight is cancelled and a new
\* one is started; nothing is fetched while the query is not enabled.
Refetched(q) ==
    IF enabled THEN [q EXCEPT !.fetch = "sent", !.response = <<>>] ELSE q

\* useActor(): the actor becomes available; the results query becomes
\* enabled with it and starts its first fetch (hooks/useQueries:13).
ActorCreated ==
    /\ actor = "null"
    /\ actor' = "ready"
    /\ resultsQuery' = [resultsQuery EXCEPT !.fetch = "sent"]
    /\ UNCHANGED <<formValues, errors, calculated, isAdding, addMutation,
                   deleteResultMutation>>

\* App.tsx:151-161.
handleChange(field, value) ==
    /\ formValues' = [formValues EXCEPT ![field] = value]
    /\ errors' = IF field \in DOMAIN errors
                 THEN [f \in (DOMAIN errors) \ {field} |-> errors[f]]
                 ELSE errors
    /\ calculated' = Null
    /\ UNCHANGED <<isAdding, actor, addMutation>>

\* App.tsx:163-185.
handleCalculate ==
    LET newErrors == validateForm(formValues)
        marks == [k \in SubjectKeys |-> ToNumber(formValues[k])]
    IN  /\ errors' = newErrors
        /\ calculated' = IF DOMAIN newErrors # {} THEN calculated
                         ELSE Calculation(marks)
        /\ UNCHANGED <<formValues, isAdding, actor, addMutation>>

\* BigInt(x) succeeds on whole numbers only.
BigIntOk(a) == IsInteger(a)

BigInt(a) == a.num \div a.den

\* The params handleAddToRecords hands to the mutation (App.tsx:191-202).
AddParams ==
    [rollNumber |-> trim(formValues.rollNumber),
     studentName |-> trim(formValues.studentName),
     maths |-> calculated.marks.maths,
     science |-> calculated.marks.science,
     english |-> calculated.marks.english,
     tamil |-> calculated.marks.tamil,
     computerScience |-> calculated.marks.computerScience,
     total |-> calculated.total,
     average |-> calculated.average,
     grade |-> calculated.grade]

\* mutationFn with the maths mark passed in the place of the science mark too.
AddArgsMisplaced(params, now) ==
    [rollNumber |-> params.rollNumber, studentName |-> params.studentName,
     maths |-> BigInt(params.maths), science |-> BigInt(params.maths),
     english |-> BigInt(params.english), tamil |-> BigInt(params.tamil),
     computerScience |-> BigInt(params.computerScience),
     total |-> BigInt(params.total), average |-> params.average,
     grade |-> params.grade, timestamp |-> now]

\* The arguments mutationFn calls actor.addResult with (hooks/useQueries:34-47).
AddArgs(params, now) ==
    [rollNumber |-> params.rollNumber, studentName |-> params.studentName,
     maths |-> BigInt(params.maths), science |-> BigInt(params.science),
     english |-> BigInt(params.english), tamil |-> BigInt(params.tamil),
     computerScience |-> BigInt(params.computerScience),
     total |-> BigInt(params.total), average |-> params.average,
     grade |-> params.grade, timestamp |-> now]

\* handleAddToRecords behind a button that is never disabled.
handleAddToRecordsNeverDisabled(now) ==
    /\ calculated # Null
    /\ Len(issued) < MaxUiAdds
    /\ LET params == AddParams
           converts == \A f \in SubjectKeys \cup {"total"} : BigIntOk(params[f])
       IN  IF actor = "null" \/ ~converts
           THEN /\ isAdding' = FALSE
                /\ addMutation' = Failed
           ELSE /\ isAdding' = TRUE
                /\ addMutation' = [isPending |-> TRUE, status |-> "pending",
                                   request |-> [stage |-> "sent",
                                                args |-> AddArgs(params, now)]]
    /\ UNCHANGED <<formValues, errors, calculated, actor>>

\* handleAddToRecords up to its await (App.tsx:187-202), reached through the
\* Add to Records button (App.tsx:392, 492-494), with mutationFn up to the
\* call of the actor. A throw in mutationFn rejects at once and the handler's
\* catch and finally run.
handleAddToRecords(now) ==
    /\ calculated # Null
    /\ ~(isAdding \/ isAddPending \/ ~isActorReady)
    /\ Len(issued) < MaxUiAdds
    /\ LET params == AddParams
           converts == \A f \in SubjectKeys \cup {"total"} : BigIntOk(params[f])
       IN  IF actor = "null" \/ ~converts
           THEN /\ isAdding' = FALSE
                /\ addMutation' = Failed
           ELSE /\ isAdding' = TRUE
                /\ addMutation' = [isPending |-> TRUE, status |-> "pending",
                                   request |-> [stage |-> "sent",
                                                args |-> AddArgs(params, now)]]
    /\ UNCHANGED <<formValues, errors, calculated, actor>>

\* The store serves the request in flight.
AddRequestServed ==
    /\ addMutation.isPending
    /\ addMutation.request.stage = "sent"
    /\ addResult(UiCaller, addMutation.request.args)
    /\ addMutation' = [addMutation EXCEPT !.request.stage = "served"]
    /\ UNCHANGED <<formValues, errors, calculated, isAdding, actor>>

\* The reply arrives: onSuccess (hooks/useQueries:49-53), then
\* handleAddToRecords after its await (App.tsx:203-215, 218-219).
handleAddResolved ==
    /\ addMutation.isPending
    /\ addMutation.request.stage = "served"
    /\ formValues' = EmptyForm
    /\ calculated' = Null
    /\ errors' = <<>>
    /\ isAdding' = FALSE
    /\ addMutation' = Succeeded
    /\ resultsQuery' = Refetched(resultsQuery)
    /\ UNCHANGED <<actor, deleteResultMutation>>

\* The rejection handled like a success: the form is emptied as well.
handleAddRejectedResets ==
    /\ addMutation.isPending
    /\ formValues' = EmptyForm
    /\ calculated' = Null
    /\ errors' = <<>>
    /\ isAdding' = FALSE
    /\ addMutation' = Failed
    /\ UNCHANGED actor

\* The call is rejected (the request or its reply is lost): the catch and
\* finally of handleAddToRecords (App.tsx:216-219).
handleAddRejected ==
    /\ addMutation.isPending
    /\ isAdding' = FALSE
    /\ addMutation' = Failed
    /\ UNCHANGED <<formValues, errors, calculated, actor>>

\* ------------------------------------------------- the list and its rows

\* The records the table shows (App.tsx:143, 599).
Shown == resultsQuery.data

\* What getResults answers for the store as it is now.
CurrentList == sort(valuesToArray(results))

\* The store answers the query's getResults call (hooks/useQueries:9-12).
QueryServed ==
    /\ resultsQuery.fetch = "sent"
    /\ getResults(UiCaller)
    /\ resultsQuery' = [resultsQuery EXCEPT !.fetch = "served",
                                            !.response = reply'.value]
    /\ UNCHANGED <<uiVars, deleteResultMutation>>

\* The answer arrives and becomes the query's data.
QueryDelivered ==
    /\ resultsQuery.fetch = "served"
    /\ resultsQuery' = [data |-> resultsQuery.response, fetch |-> "idle",
                        response |-> <<>>]
    /\ UNCHANGED <<uiVars, deleteResultMutation>>

\* The ids of the rows on screen.
ShownIds == {Shown[i].id : i \in 1..Len(Shown)}

\* handleDelete up to its await (App.tsx:223-226), reached through a row's
\* delete button (App.tsx:642-643), with mutationFn up to the call of the
\* actor (hooks/useQueries:62-65).
handleDelete(id) ==
    /\ id \in ShownIds
    /\ ~deleteResultMutation.isPending
    /\ deleteResultMutation' =
           IF actor = "null" THEN Failed
           ELSE [isPending |-> TRUE, status |-> "pending",
                 request |-> [stage |-> "sent", args |-> id]]
    /\ UNCHANGED <<uiVars, resultsQuery>>

\* The store serves the delete request in flight; a trap rejects the call.
DeleteRequestServed ==
    /\ deleteResultMutation.isPending
    /\ deleteResultMutation.request.stage = "sent"
    /\ deleteResult(UiCaller, deleteResultMutation.request.args)
    /\ deleteResultMutation' =
           [deleteResultMutation EXCEPT
                !.request.stage = IF reply'.ok THEN "served" ELSE "trapped"]
    /\ UNCHANGED <<uiVars, resultsQuery>>

\* The reply arrives: onSuccess (hooks/useQueries:66-69), then handleDelete
\* after its await (App.tsx:227).
handleDeleteResolved ==
    /\ deleteResultMutation.isPending
    /\ deleteResultMutation.request.stage = "served"
    /\ deleteResultMutation' = Succeeded
    /\ resultsQuery' = Refetched(resultsQuery)
    /\ UNCHANGED uiVars

\* The call is rejected (a trap, or the request or its reply is lost): the
\* catch of handleDelete (App.tsx:228-230).
handleDeleteRejected ==
    /\ deleteResultMutation.isPending
    /\ deleteResultMutation' = Failed
    /\ UNCHANGED <<uiVars, resultsQuery>>

\* ------------------------------------------------------- the specifications

NobodyYet ==
    /\ who = [last |-> "none", made |-> <<>>]
    /\ quiet = FALSE

\* The call is made by caller c / is an addResult made by caller c.
CalledBy(c) == who' = [who EXCEPT !.last = c]

CreatedBy(c) == who' = [last |-> c, made |-> MapAdd(who.made, nextId, c)]

Init == StoreInit /\ UiInit /\ ListInit /\ GradeIdle /\ NobodyYet

\* The store called directly by any callers.
Next ==
    \/ \E c \in Callers, a \in StoreArgs :
           addResult(c, a) /\ CreatedBy(c) /\ UNCHANGED <<uiVars, listVars, gradeVars, quiet>>
    \/ \E c \in Callers :
           getResults(c) /\ CalledBy(c) /\ UNCHANGED <<uiVars, listVars, gradeVars, quiet>>
    \/ \E c \in Callers, id \in DeleteIds :
           deleteResult(c, id) /\ CalledBy(c) /\ UNCHANGED <<uiVars, listVars, gradeVars, quiet>>
    \/ \E c \in Callers :
           clearAll(c) /\ CalledBy(c) /\ UNCHANGED <<uiVars, listVars, gradeVars, quiet>>

Spec == Init /\ [][Next]_vars

\* The grade calculation run on each choice of marks.
InitGrade == StoreInit /\ UiInit /\ ListInit /\ GradeInit /\ NobodyYet

NextGrade == Grade /\ UNCHANGED <<storeVars, uiVars, listVars, who, quiet>>

SpecGrade == InitGrade /\ [][NextGrade]_vars

\* One frontend and the store it talks to.
NextUI ==
    \/ ActorCreated /\ UNCHANGED <<storeVars, gradeVars, who, quiet>>
    \/ \E f \in FormFields : \E v \in FieldInputs(f) :
           handleChange(f, v) /\ UNCHANGED <<storeVars, listVars, gradeVars, who, quiet>>
    \/ handleCalculate /\ UNCHANGED <<storeVars, listVars, gradeVars, who, quiet>>
    \/ \E now \in Timestamps :
           handleAddToRecords(now) /\ UNCHANGED <<storeVars, listVars, gradeVars, who, quiet>>
    \/ AddRequestServed /\ UNCHANGED <<listVars, gradeVars, who, quiet>>
    \/ handleAddResolved /\ UNCHANGED <<storeVars, gradeVars, who, quiet>>
    \/ handleAddRejected /\ UNCHANGED <<storeVars, listVars, gradeVars, who, quiet>>

SpecUI == Init /\ [][NextUI]_vars

\* What the user types when filling the form in without mistakes.
CarefulInputs(field) ==
    CASE field = "studentName" -> {<<"A", "n", " ">>}
      [] field = "rollNumber" -> {<<" ", "7">>}
      [] field = "maths" -> {<<"3", "4">>, <<"1", "0", "0">>}
      [] OTHER -> FieldInputs(field) \ {<<>>}

\* The frontend of a careful user, and another caller that calls addResult
\* directly with derived fields that do not fit the marks.
NextOpen ==
    \/ ActorCreated /\ UNCHANGED <<storeVars, gradeVars, who, quiet>>
    \/ \E f \in FormFields : \E v \in CarefulInputs(f) :
           handleChange(f, v) /\ UNCHANGED <<storeVars, listVars, gradeVars, who, quiet>>
    \/ handleCalculate /\ UNCHANGED <<storeVars, listVars, gradeVars, who, quiet>>
    \/ \E now \in Timestamps :
           handleAddToRecords(now) /\ UNCHANGED <<storeVars, listVars, gradeVars, who, quiet>>
    \/ AddRequestServed /\ UNCHANGED <<listVars, gradeVars, who, quiet>>
    \/ handleAddResolved /\ UNCHANGED <<storeVars, gradeVars, who, quiet>>
    \/ handleAddRejected /\ UNCHANGED <<storeVars, listVars, gradeVars, who, quiet>>
    \/ \E c \in Callers : addResult(c, ArgsC) /\ UNCHANGED <<uiVars, listVars, gradeVars, who, quiet>>

SpecOpen == Init /\ [][NextOpen]_vars

\* What the user of the list types: one valid value in each field.
ListInputs(field) ==
    CASE field = "maths" -> {<<"3", "4">>}
      [] OTHER -> CarefulInputs(field)

\* A mutation of the frontend has just succeeded / the store is called again.
Quieted == quiet' = TRUE

Disturbed == quiet' = (quiet /\ results' = results)

ServeQuery == QueryServed /\ UNCHANGED <<gradeVars, who, quiet>>

DeliverQuery == QueryDelivered /\ UNCHANGED <<storeVars, gradeVars, who, quiet>>

\* One frontend with its list of records: adding, deleting and the results
\* query.  A getResults call that was sent is answered, and its answer
\* arrives.
NextList ==
    \/ ActorCreated /\ UNCHANGED <<storeVars, gradeVars, who, quiet>>
    \/ \E f \in FormFields : \E v \in ListInputs(f) :
           handleChange(f, v) /\ UNCHANGED <<storeVars, listVars, gradeVars, who, quiet>>
    \/ handleCalculate /\ UNCHANGED <<storeVars, listVars, gradeVars, who, quiet>>
    \/ \E now \in Timestamps :
           handleAddToRecords(now)
               /\ UNCHANGED <<storeVars, listVars, gradeVars, who, quiet>>
    \/ AddRequestServed /\ Disturbed /\ UNCHANGED <<listVars, gradeVars, who>>
    \/ handleAddResolved /\ Quieted /\ UNCHANGED <<storeVars, gradeVars, who>>
    \/ handleAddRejected /\ UNCHANGED <<storeVars, listVars, gradeVars, who, quiet>>
    \/ ServeQuery
    \/ DeliverQuery
    \/ \E id \in DeleteIds :
           handleDelete(id) /\ UNCHANGED <<storeVars, gradeVars, who, quiet>>
    \/ DeleteRequestServed /\ Disturbed /\ UNCHANGED <<gradeVars, who>>
    \/ handleDeleteResolved /\ Quieted /\ UNCHANGED <<storeVars, gradeVars, who>>
    \/ handleDeleteRejected /\ UNCHANGED <<storeVars, gradeVars, who, quiet>>

SpecList ==
    /\ Init
    /\ [][NextList]_vars
    /\ WF_vars(ServeQuery)
    /\ WF_vars(DeliverQuery)

\* ------------------------------------------------------ claims on the store

ArgFields == {"rollNumber", "studentName", "maths", "science", "english",
              "tamil", "computerScience", "total", "average", "grade",
              "timestamp"}

StrictlyIncreasing(seq, from) ==
    \A i, j \in (from + 1)..Len(seq) : i < j => seq[i] < seq[j]

\* C1 as stated: over the whole lifetime of the store, clearAll calls
\* included, the ids returned by successive addResult calls are strictly
\* increasing, so none is returned twice.
C1_IdsNeverReusedEver == StrictlyIncreasing(issued, 0)

\* C1 as amended: the ids returned by the addResult calls made since the most
\* recent clearAll (or since construction) are strictly increasing, so none of
\* them is returned twice, also after the record carrying it was deleted.
C1_IdsIncreaseBetweenClears ==
    /\ StrictlyIncreasing(issued, clearedAt)
    /\ \A i \in (clearedAt + 1)..Len(issued) : issued[i] < nextId

\* An addResult has just returned, after a deleteResult removed an earlier
\* record of the same period.
C1_Witness ==
    /\ reply.op = "addResult"
    /\ Len(issued) - clearedAt >= 2
    /\ deletedSinceClear # {}

SeqIds(seq) == {seq[i].id : i \in 1..Len(seq)}

\* C2 as stated: once deleteResult(id) has succeeded, no later getResults
\* returns a record with that id, whatever store operations came in between.
C2_DeletedIdNeverListedAgain ==
    reply.op = "getResults" => SeqIds(reply.value) \cap deleted = {}

\* C2 as amended: once deleteResult(id) has succeeded, no later getResults
\* returns a record with that id as long as no clearAll has run since that
\* deletion.
C2_DeletedIdNotListedUntilClear ==
    reply.op = "getResults" => SeqIds(reply.value) \cap deletedSinceClear = {}

\* getResults has just returned records, one of them created after a deletion.
C2_Witness ==
    /\ reply.op = "getResults"
    /\ \E d \in deletedSinceClear : \E id \in SeqIds(reply.value) : id > d

\* C3: deleteResult(id) with no record of that id in the store fails with the
\* "does not exist" error and leaves the records and the next-id counter as
\* they were.
C3_DeleteUnknownFailsAndKeepsStore ==
    [][(reply'.op = "deleteResult" /\ reply'.arg \notin DOMAIN results)
        => /\ reply'.ok = FALSE
           /\ reply'.value = "Result with id does not exist"
           /\ results' = results
           /\ nextId' = nextId]_vars

\* A deleteResult of an absent id has just failed on a store that holds records.
C3_Witness ==
    /\ reply.op = "deleteResult"
    /\ reply.ok = FALSE
    /\ reply.arg \notin DOMAIN results
    /\ results # <<>>

\* C4: clearAll can always be called and succeeds, leaves no record, and the
\* first addResult after it is assigned id 0.
C4_ClearAllResets ==
    /\ [](\A c \in Callers : ENABLED clearAll(c))
    /\ [][reply'.op = "clearAll"
            => (reply'.ok /\ results' = <<>> /\ nextId' = 0)]_vars
    /\ [][(cleared /\ reply'.op = "addResult") => reply'.value = 0]_vars

\* The first addResult after a clearAll that followed earlier additions has
\* just returned.
C4_Witness ==
    /\ reply.op = "addResult"
    /\ clearedAt > 0
    /\ Len(issued) = clearedAt + 1

\* C5: getResults returns each record of the store exactly once and nothing
\* else, in strictly ascending id order, which is the order of creation; after
\* N addResult calls and no removal (no deleteResult, no clearAll) it returns
\* N records.
C5_ListIsStoreInIdOrder ==
    reply.op = "getResults" =>
        LET list == reply.value
        IN  /\ Len(list) = Cardinality(DOMAIN results)
            /\ \A i \in 1..Len(list) :
                   list[i].id \in DOMAIN results /\ list[i] = results[list[i].id]
            /\ \A k \in DOMAIN results : \E i \in 1..Len(list) : list[i] = results[k]
            /\ \A i, j \in 1..Len(list) :
                   i < j => /\ list[i].id < list[j].id
                            /\ birth[list[i].id] < birth[list[j].id]
            /\ (deleted = {} /\ clearedAt = 0) => Len(list) = Len(issued)

\* getResults has just returned several records, one of them created after the
\* deletion of an earlier one.
C5_Witness ==
    /\ reply.op = "getResults"
    /\ Len(reply.value) >= 2
    /\ deletedSinceClear # {}

\* C6: no two records of the store have the same id, and the ids present are
\* exactly the ids returned by addResult and not removed since by deleteResult
\* or clearAll.
C6_IdsUniqueAndLive ==
    /\ \A k1, k2 \in DOMAIN results :
           results[k1].id = results[k2].id => k1 = k2
    /\ \A k \in DOMAIN results : results[k].id = k
    /\ DOMAIN results = live

\* Records are present after both a clearAll and a later deleteResult.
C6_Witness ==
    /\ live # {}
    /\ deletedSinceClear # {}
    /\ clearedAt > 0

\* C7: addResult succeeds; it stores under the current next-id a record whose
\* id is that counter value and whose other fields are the arguments, leaves
\* the other records alone, advances the counter by one and returns the id.
C7_AddStoresArguments ==
    [][reply'.op = "addResult"
        => /\ reply'.ok
           /\ reply'.value = nextId
           /\ nextId' = nextId + 1
           /\ DOMAIN results' = DOMAIN results \cup {nextId}
           /\ results'[nextId].id = nextId
           /\ \A f \in ArgFields : results'[nextId][f] = reply'.arg[f]
           /\ \A k \in DOMAIN results \ {nextId} : results'[k] = results[k]]_vars

\* An addResult has just stored a record next to an earlier one.
C7_Witness ==
    /\ reply.op = "addResult"
    /\ reply.value \in DOMAIN results
    /\ results[reply.value].studentName = reply.arg.studentName
    /\ Cardinality(DOMAIN results) >= 2

\* --------------------------------------------- claims on the grade calculator

SumOfMarks(marks) ==
    marks.maths.num + marks.science.num + marks.english.num + marks.tamil.num
        + marks.computerScience.num

\* C8: whenever one of the five marks is below 35 the grade is Fail, however
\* high the average.
C8_FailingSubjectFails ==
    (gradeOut # Null /\ \E k \in SubjectKeys : gradeMarks[k].num < 35)
        => gradeOut.grade = "Fail"

\* The marks 34, 100, 100, 100, 100 have been graded.
C8_Witness ==
    /\ gradeOut # Null
    /\ gradeMarks.maths.num = 34
    /\ \A k \in SubjectKeys \ {"maths"} : gradeMarks[k].num = 100
    /\ gradeOut.grade = "Fail"

\* C9: with every mark at least 35 the grade is A for an average of at least
\* 80, B from 60 up to 80, C from 40 up to 60 and Fail below 40 (the average
\* is the sum over 5, so the bands are sums of 400, 300 and 200).
C9_BandsByAverage ==
    (gradeOut # Null /\ \A k \in SubjectKeys : gradeMarks[k].num >= 35)
        => LET sum == SumOfMarks(gradeMarks)
           IN  gradeOut.grade = IF sum >= 400 THEN "A"
                                ELSE IF sum >= 300 THEN "B"
                                ELSE IF sum >= 200 THEN "C"
                                ELSE "Fail"

\* Five marks of 40 have been graded C.
C9_Witness ==
    /\ gradeOut # Null
    /\ \A k \in SubjectKeys : gradeMarks[k].num = 40
    /\ gradeOut.grade = "C"

\* ------------------------------------------------------ claims on the form

CalculatedIsExact ==
    calculated # Null =>
        /\ \A k \in SubjectKeys :
               /\ calculated.marks[k] = ToNumber(formValues[k])
               /\ calculated.marks[k].den = 1
        /\ calculated.total.den = 1
        /\ calculated.total.num = SumOfMarks(calculated.marks)
        /\ calculated.total.num \in 0..500
        /\ 5 * calculated.average.num = calculated.total.num * calculated.average.den

SentIsCalculated ==
    (addMutation'.isPending /\ ~addMutation.isPending) =>
        LET args == addMutation'.request.args
        IN  /\ \A k \in SubjectKeys : args[k] = calculated.marks[k].num
            /\ args.total = calculated.total.num
            /\ args.average = calculated.average

ServedIsSent ==
    Len(issued') = Len(issued) + 1 =>
        /\ reply'.arg = addMutation.request.args
        /\ reply'.arg.total = reply'.arg.maths + reply'.arg.science
               + reply'.arg.english + reply'.arg.tamil + reply'.arg.computerScience
        /\ 5 * reply'.arg.average.num = reply'.arg.total * reply'.arg.average.den

\* C10: for a form that passed validation the calculated total is the sum of
\* the five marks (within 0..500) and the average is exactly total / 5; the
\* request handleAddToRecords sends carries those values, and they are the
\* arguments addResult receives.
C10_TotalAndAverageExact ==
    /\ []CalculatedIsExact
    /\ [][SentIsCalculated]_vars
    /\ [][ServedIsSent]_vars

\* addResult has received a calculated total that 5 does not divide.
C10_Witness ==
    /\ reply.op = "addResult"
    /\ reply.arg.total % 5 # 0
    /\ reply.arg.total = 34 + 35 + 60 + 80 + 100
    /\ results # <<>>

\* A mark field holds a whole number from 0 to 100.
MarkFieldOk(str) ==
    /\ str # <<>>
    /\ ToNumber(str).den = 1
    /\ ToNumber(str).num \in 0..100

\* Every field of the form passes validation.
FormPasses(values) ==
    /\ trim(values.studentName) # <<>>
    /\ trim(values.rollNumber) # <<>>
    /\ \A k \in SubjectKeys : MarkFieldOk(values[k])

RequestIsOfValidForm(args) ==
    /\ args.studentName # <<>>
    /\ args.rollNumber # <<>>
    /\ \A k \in SubjectKeys : args[k] \in 0..100

SendsOnlyValidForm ==
    (addMutation'.isPending /\ ~addMutation.isPending) =>
        /\ FormPasses(formValues)
        /\ addMutation'.request.args.studentName = trim(formValues.studentName)
        /\ addMutation'.request.args.rollNumber = trim(formValues.rollNumber)
        /\ \A k \in SubjectKeys :
               addMutation'.request.args[k] = ToNumber(formValues[k]).num

\* C11: a request goes to the store only for a form that passed validation
\* (name and roll number non-empty after trimming, each mark a whole number
\* in 0..100), and is built from that form; while a field fails validation
\* there is no calculated result, hence nothing to send.
C11_OnlyValidFormsAreSent ==
    /\ [](~FormPasses(formValues) => calculated = Null)
    /\ [](addMutation.isPending => RequestIsOfValidForm(addMutation.request.args))
    /\ [][SendsOnlyValidForm]_vars
    /\ [][Len(issued') = Len(issued) + 1
            => RequestIsOfValidForm(reply'.arg)]_vars

\* A request built from a valid form, its name typed with a trailing blank, is
\* in flight.
C11_Witness ==
    /\ addMutation.isPending
    /\ addMutation.request.stage = "sent"
    /\ addMutation.request.args.studentName = <<"A", "n">>
    /\ addMutation.request.args.maths = 34

\* The grade the calculator gives for five whole marks, by their sum.
GradeOfMarks(r) ==
    LET sum == r.maths + r.science + r.english + r.tamil + r.computerScience
    IN  IF (\E k \in SubjectKeys : r[k] < 35) \/ sum < 200 THEN "Fail"
        ELSE IF sum >= 400 THEN "A"
        ELSE IF sum >= 300 THEN "B"
        ELSE "C"

DerivedFieldsFit(r) ==
    /\ r.total = r.maths + r.science + r.english + r.tamil + r.computerScience
    /\ 5 * r.average.num = r.total * r.average.den
    /\ r.grade = GradeOfMarks(r)

FrontendAddServed ==
    /\ addMutation.isPending /\ addMutation.request.stage = "sent"
    /\ addMutation'.isPending /\ addMutation'.request.stage = "served"

\* C12 as stated: in every reachable state every record of the store has its
\* total equal to the sum of its marks, its average equal to total / 5 and
\* its grade the one the calculator gives.
C12_EveryRecordFits ==
    \A k \in DOMAIN results : DerivedFieldsFit(results[k])

\* C12 as amended: every record the frontend adds, from the result of
\* handleCalculate, is stored with total, average and grade that fit its
\* marks; the store checks none of this for the records other callers add.
C12_FrontendRecordsFit ==
    [][FrontendAddServed => DerivedFieldsFit(results'[nextId])]_vars

\* The frontend's record has just been stored next to another caller's record
\* whose derived fields do not fit.
C12_Witness ==
    /\ addMutation.isPending
    /\ addMutation.request.stage = "served"
    /\ reply.op = "addResult"
    /\ DerivedFieldsFit(results[reply.value])
    /\ \E k \in DOMAIN results : ~DerivedFieldsFit(results[k])

\* ----------------------------------------------- further claims on the store

KeptRecordsUntouched ==
    \A k \in (DOMAIN results) \cap (DOMAIN results') : results'[k] = results[k]

OneInserted ==
    \E k \in DOMAIN results' :
        k \notin DOMAIN results /\ DOMAIN results' = DOMAIN results \cup {k}

OneRemoved ==
    \E k \in DOMAIN results :
        k \notin DOMAIN results' /\ DOMAIN results' = DOMAIN results \ {k}

\* C13: no store operation changes a record in place: a record present before
\* and after a step has the same fields, and a step leaves the records as
\* they are, inserts one, removes one or empties the store.
C13_NoUpdateInPlace ==
    [][/\ KeptRecordsUntouched
       /\ \/ results' = results
          \/ OneInserted
          \/ OneRemoved
          \/ results' = <<>>]_vars

\* After a reset, a record has just been inserted next to an earlier one.
C13_Witness ==
    /\ reply.op = "addResult"
    /\ clearedAt > 0
    /\ Cardinality(DOMAIN results) >= 2
    /\ \E k \in DOMAIN results : results[k] # results[reply.value]

\* C14: a store call has the same outcome (reply and resulting store state)
\* whichever caller makes it: every step of one caller's call is equally a
\* step of the same call made by any other caller.  Listing and clearing never
\* fail, and deleting fails only for an id that is not stored, so any caller
\* can delete a record another caller created.
C14_CallerMakesNoDifference ==
    [][/\ reply'.op = "addResult" => \A c \in Callers : addResult(c, reply'.arg)
       /\ reply'.op = "getResults" => \A c \in Callers : getResults(c)
       /\ reply'.op = "deleteResult"
              => \A c \in Callers : deleteResult(c, reply'.arg)
       /\ reply'.op = "clearAll" => \A c \in Callers : clearAll(c)
       /\ reply'.op \in {"getResults", "clearAll"} => reply'.ok
       /\ reply'.op = "deleteResult" /\ reply'.arg \in DOMAIN results
              => reply'.ok]_vars

\* A caller has just deleted a record that another caller created.
C14_Witness ==
    /\ reply.op = "deleteResult"
    /\ reply.ok
    /\ who.last # who.made[reply.arg]

\* C15: a successful deleteResult(id) removes exactly the record with that id;
\* every other record and the next-id counter are unchanged, so an id deleted
\* since the last clearAll stays below the counter and no later addResult
\* returns it.
C15_DeleteRemovesOnlyThatRecord ==
    /\ [][reply'.op = "deleteResult" /\ reply'.ok
              => /\ reply'.arg \in DOMAIN results
                 /\ DOMAIN results' = DOMAIN results \ {reply'.arg}
                 /\ \A k \in DOMAIN results' : results'[k] = results[k]
                 /\ nextId' = nextId]_vars
    /\ [](\A id \in deletedSinceClear : id < nextId)
    /\ [][reply'.op = "addResult" /\ reply'.ok
              => reply'.value \notin deletedSinceClear]_vars

\* An addResult has succeeded after a delete with no clearAll in between,
\* while a record older than the deleted one is still stored.
C15_Witness ==
    /\ reply.op = "addResult"
    /\ reply.ok
    /\ \E id \in deletedSinceClear :
           /\ id < reply.value
           /\ \E k \in DOMAIN results : k < id

\* A request leaves the client: the mutation holds a request at stage "sent"
\* that it did not hold before.
AddRequestSent ==
    /\ addMutation'.isPending
    /\ addMutation'.request.stage = "sent"
    /\ addMutation' # addMutation

AddInFlight == addMutation.isPending

\* C16: one UI client never has two addResult requests in flight.  While a
\* request is in flight isAdding is set and Add to Records cannot be pressed;
\* a request is sent only when none is in flight; a record is created only by
\* serving the request in flight, once: a served request is next settled,
\* never sent again.
C16_OneAddInFlight ==
    /\ [](AddInFlight
             => /\ isAdding
                /\ \A now \in Timestamps : ~ENABLED handleAddToRecords(now))
    /\ [][AddRequestSent => ~AddInFlight /\ ~isAdding]_vars
    /\ [][Len(issued') = Len(issued) + 1
              => /\ AddInFlight
                 /\ addMutation.request.stage = "sent"
                 /\ addMutation' = [addMutation EXCEPT !.request.stage = "served"]]_vars
    /\ [][AddInFlight /\ addMutation.request.stage = "served"
              => addMutation' \in {addMutation, Succeeded, Failed}]_vars

\* A request has been served and is still in flight while the calculated
\* result is on screen, so only the disabled control holds back a second one.
C16_Witness ==
    /\ AddInFlight
    /\ addMutation.request.stage = "served"
    /\ calculated # Null
    /\ isActorReady

\* The add request settles: the mutation leaves its pending state.
AddSettles == addMutation.isPending /\ ~addMutation'.isPending

\* C18: when an add request of the UI fails, form values and calculated result
\* stay as they are; when it succeeds, form, calculated result and errors are
\* emptied; either way isAdding is false afterwards, and isAdding is never set
\* while no request is pending.
C18_FailureKeepsSuccessResets ==
    /\ [][AddSettles
              => /\ addMutation'.status \in {"success", "error"}
                 /\ isAdding' = FALSE]_vars
    /\ [][addMutation'.status = "error" /\ addMutation' # addMutation
              => /\ formValues' = formValues
                 /\ calculated' = calculated
                 /\ isAdding' = FALSE]_vars
    /\ [][addMutation'.status = "success" /\ addMutation' # addMutation
              => /\ formValues' = EmptyForm
                 /\ calculated' = Null
                 /\ errors' = <<>>
                 /\ isAdding' = FALSE]_vars
    /\ [](isAdding => addMutation.isPending)

\* A request has failed and the submission is still on screen, ready to be
\* sent again.
C18_Witness ==
    /\ addMutation.status = "error"
    /\ ~isAdding
    /\ calculated # Null
    /\ formValues # EmptyForm
    /\ isActorReady

\* A mutation of the frontend succeeds: its status turns to "success".
MutationSucceeds ==
    \/ addMutation'.status = "success" /\ addMutation' # addMutation
    \/ /\ deleteResultMutation'.status = "success"
       /\ deleteResultMutation' # deleteResultMutation

====
